---- MODULE Spec2Model ----
(***************************************************************************)
(* CryptoSimApp (src/main.py): the account ledger, the trade executor and  *)
(* the persistence boundary, as a state machine.                           *)
(*                                                                         *)
(* Numbers.  USD amounts are integers counting cents, coin quantities are  *)
(* integers counting millionths of a coin, so that the "{x:.2f}" and       *)
(* "{x:.6f}" formats of the code are exact.  Text is a sequence of         *)
(* one-character strings.                                                  *)
(***************************************************************************)
EXTENDS Integers, Sequences, FiniteSets, TLC

VARIABLES
    files,              \* user_data/: username -> the JSON record of its file
    current_username,   \* self.current_username
    current_password,   \* self.current_password
    current_balance,    \* self.current_balance
    holdings,           \* self.holdings (a dict: symbol -> amount)
    activity,           \* self.activity (a list of (icon, desc, color))
    cached_coins_data,  \* self.cached_coins_data
    displayed_coins,    \* self.displayed_coins
    screen,             \* the window shown: "login" or "dashboard"
    last,               \* the handler that ran last, with its inputs and outcome
    recorded,           \* per username, every activity entry recorded so far
    nops                \* number of ledger mutations performed so far

vars == <<files, current_username, current_password, current_balance, holdings,
          activity, cached_coins_data, displayed_coins, screen, last, recorded,
          nops>>

session == <<current_username, current_password, current_balance, holdings, activity>>

-----------------------------------------------------------------------------
(* Bounds of the model *)

\* ledger mutations explored by Spec
MaxOps == 2
\* ledger mutations explored by SpecLog
MaxLogOps == 6
\* ledger mutations explored by SpecAccounts
MaxAccOps == 3
\* quotes of the longest price list explored by SpecMarket
MaxQuotes == 5
\* ledger mutations explored by SpecRank
MaxRankOps == 3
\* ledger mutations explored by SpecPrice
MaxPriceOps == 3

(* Program constants *)

\* len(self.activity) > 5
ActivityMax == 5
\* len(result_msg) <= 30
MsgMax == 30
\* result_msg[:27]
MsgKeep == 27

-----------------------------------------------------------------------------
(* Text *)

\* the one character U+2026 appended to a cut message
Ellipsis == "..."

Digits == <<"0", "1", "2", "3", "4", "5", "6", "7", "8", "9">>

RECURSIVE NatStr(_)
NatStr(n) == IF n < 10 THEN <<Digits[n + 1]>>
             ELSE NatStr(n \div 10) \o <<Digits[(n % 10) + 1]>>

RECURSIVE Pad(_, _)
Pad(n, w) == IF w = 0 THEN <<>> ELSE Pad(n \div 10, w - 1) \o <<Digits[(n % 10) + 1]>>

Abs(v) == IF v < 0 THEN -v ELSE v

\* "{x:.<w>f}" of the number v / scale, scale = 10^w
FmtFixed(v, scale, w) ==
    (IF v < 0 THEN <<"-">> ELSE <<>>)
        \o NatStr(Abs(v) \div scale) \o <<".">> \o Pad(Abs(v) % scale, w)

\* f"{usd:.2f}" of a USD amount in cents
Fmt2(c) == FmtFixed(c, 100, 2)

\* f"{qty:.6f}" of a coin quantity in millionths
Fmt6(m) == FmtFixed(m, 1000000, 6)

IsSpace(ch) == ch = " "

RECURSIVE LStrip(_)
LStrip(s) == IF s # <<>> /\ IsSpace(Head(s)) THEN LStrip(Tail(s)) ELSE s

RECURSIVE RStrip(_)
RStrip(s) == IF s # <<>> /\ IsSpace(s[Len(s)]) THEN RStrip(SubSeq(s, 1, Len(s) - 1)) ELSE s

\* str.strip()
Strip(s) == RStrip(LStrip(s))

UpperCase == <<"A", "B", "C", "D", "E", "F", "G", "H", "I", "J", "K", "L", "M",
               "N", "O", "P", "Q", "R", "S", "T", "U", "V", "W", "X", "Y", "Z">>
LowerCase == <<"a", "b", "c", "d", "e", "f", "g", "h", "i", "j", "k", "l", "m",
               "n", "o", "p", "q", "r", "s", "t", "u", "v", "w", "x", "y", "z">>

\* s.lower()
lower(s) ==
    [i \in 1..Len(s) |->
        IF \E k \in 1..Len(UpperCase) : UpperCase[k] = s[i]
        THEN LowerCase[CHOOSE k \in 1..Len(UpperCase) : UpperCase[k] = s[i]]
        ELSE s[i]]

\* q in s, for two strings
contains(q, s) ==
    \E i \in 0..(Len(s) - Len(q)) : SubSeq(s, i + 1, i + Len(q)) = q

\* list.reverse()
reverse(s) == [i \in 1..Len(s) |-> s[Len(s) - i + 1]]

PlaceholderUsername == <<"U", "s", "e", "r", "n", "a", "m", "e">>
PlaceholderPassword == <<"P", "a", "s", "s", "w", "o", "r", "d">>

-----------------------------------------------------------------------------
(* Dicts *)

EmptyDict == [k \in {} |-> 0]

\* d.get(k, default)
Get(d, k, default) == IF k \in DOMAIN d THEN d[k] ELSE default

\* d[k] = v
Put(d, k, v) == [x \in (DOMAIN d) \cup {k} |-> IF x = k THEN v ELSE d[x]]

\* d.pop(k, None)
Pop(d, k) == [x \in (DOMAIN d) \ {k} |-> d[x]]

-----------------------------------------------------------------------------
(* Market quotes, as fetch_coin_data returns them *)

SymETH == <<"E", "T", "H">>
SymNone == <<>>

QuoteETH == [SYMBOL |-> SymETH,
             NAME |-> <<"E", "t", "h", "e", "r", "e", "u", "m">>,
             PRICE_USD |-> 200000,
             TOTAL_MKT_CAP_USD |-> 24000000,
             SPOT_MOVING_24_HOUR_CHANGE_PERCENTAGE_USD |-> -150]

\* what fetch_coin_data can return: the quotes, or [] when the request fails
fetch_coin_data == {<<>>, <<QuoteETH>>}

SymBTC == <<"B", "T", "C">>

QuoteBTC == [SYMBOL |-> SymBTC,
             NAME |-> <<"B", "i", "t", "c", "o", "i", "n">>,
             PRICE_USD |-> 5000000,
             TOTAL_MKT_CAP_USD |-> 24000000,
             SPOT_MOVING_24_HOUR_CHANGE_PERCENTAGE_USD |-> 100]

QuoteSOL == [SYMBOL |-> <<"S", "O", "L">>,
             NAME |-> <<"S", "o", "l", "a", "n", "a">>,
             PRICE_USD |-> 200000,
             TOTAL_MKT_CAP_USD |-> 900000,
             SPOT_MOVING_24_HOUR_CHANGE_PERCENTAGE_USD |-> 100]

QuoteUSDT == [SYMBOL |-> <<"U", "S", "D", "T">>,
              NAME |-> <<"T", "e", "t", "h", "e", "r">>,
              PRICE_USD |-> 100,
              TOTAL_MKT_CAP_USD |-> 24000000,
              SPOT_MOVING_24_HOUR_CHANGE_PERCENTAGE_USD |-> 0]

QuoteXRP == [SYMBOL |-> <<"X", "R", "P">>,
             NAME |-> <<"X", "R", "P">>,
             PRICE_USD |-> 100,
             TOTAL_MKT_CAP_USD |-> 900000,
             SPOT_MOVING_24_HOUR_CHANGE_PERCENTAGE_USD |-> -150]

QuoteBNB == [SYMBOL |-> <<"B", "N", "B">>,
             NAME |-> <<"B", "N", "B">>,
             PRICE_USD |-> 100,
             TOTAL_MKT_CAP_USD |-> 24000000,
             SPOT_MOVING_24_HOUR_CHANGE_PERCENTAGE_USD |-> 0]

\* the quotes of a response, in the order of the request's asset list
top_list == <<QuoteBTC, QuoteETH, QuoteSOL, QuoteUSDT, QuoteXRP, QuoteBNB>>

\* the responses of the Buy/Sell runs: the first n quotes of the list, n up
\* to MaxQuotes, or [] when the request fails
fetch_top_list ==
    {SubSeq(top_list, 1, n) : n \in 0..(IF MaxQuotes < Len(top_list)
                                        THEN MaxQuotes ELSE Len(top_list))}

\* the members of a quote whose value in the response is null, and those
\* whose value is a text that is not a number; neither is a field of the
\* record, which holds the members that are numbers
null_fields(x) == IF "NULL_FIELDS" \in DOMAIN x THEN x.NULL_FIELDS ELSE {}
text_fields(x) == IF "TEXT_FIELDS" \in DOMAIN x THEN x.TEXT_FIELDS ELSE {}

\* a quote without a price, with a market cap, and with a change of null
QuoteADA == [SYMBOL |-> <<"A", "D", "A">>,
             NAME |-> <<"C", "a", "r", "d", "a", "n", "o">>,
             TOTAL_MKT_CAP_USD |-> 900000,
             NULL_FIELDS |-> {"SPOT_MOVING_24_HOUR_CHANGE_PERCENTAGE_USD"}]

\* a quote with a price, a market cap of null, and a change of "n/a"
QuoteDOGE == [SYMBOL |-> <<"D", "O", "G", "E">>,
              NAME |-> <<"D", "o", "g", "e", "c", "o", "i", "n">>,
              PRICE_USD |-> 20,
              NULL_FIELDS |-> {"TOTAL_MKT_CAP_USD"},
              TEXT_FIELDS |-> {"SPOT_MOVING_24_HOUR_CHANGE_PERCENTAGE_USD"}]

\* the responses of the SpecFields runs
fetch_fields == {<<>>, <<QuoteDOGE>>, <<QuoteBTC, QuoteADA, QuoteETH>>,
                 <<QuoteBTC, QuoteDOGE, QuoteADA, QuoteETH>>}

\* the attributes of the Filter menu
SortAttrs == {"PRICE_USD", "TOTAL_MKT_CAP_USD",
              "SPOT_MOVING_24_HOUR_CHANGE_PERCENTAGE_USD"}

-----------------------------------------------------------------------------
(* Search and sort of the Buy/Sell table *)

\* the test of run_search without .lower() on the quote's texts
coin_matches_case_sensitive(q, c) == contains(q, c.NAME) \/ contains(q, c.SYMBOL)

\* q in c.get("NAME","").lower() or q in c.get("SYMBOL","").lower()
coin_matches(q, c) == contains(q, lower(c.NAME)) \/ contains(q, lower(c.SYMBOL))

\* run_search: the list assigned to displayed_coins for the query q, which
\* is the text of the search box stripped and lowercased
search_view(snapshot, q) ==
    IF q = <<>> THEN snapshot
    ELSE SelectSeq(snapshot, LAMBDA c : coin_matches(q, c))

\* float(x.get(attr, 0) or 0) raises ValueError: the value is a text that
\* is not a number
sort_key_raises(x, attr) == attr \in text_fields(x)

\* float(x.get(attr, 0) or 0), when it does not raise: the number, and 0 for
\* a member that is missing (the default of get) or null (None or 0)
sort_key(x, attr) == IF attr \in DOMAIN x THEN x[attr] ELSE 0

\* quick_sort raises: the list has two quotes or more, so that the keys of
\* all of them are computed, and the key of one raises
quick_sort_raises(arr, attr) ==
    /\ Len(arr) > 1
    /\ \E i \in 1..Len(arr) : sort_key_raises(arr[i], attr)

RECURSIVE quick_sort(_, _)

\* quick_sort with mid = [pivot]: the other quotes of the pivot's key are lost
quick_sort_one_pivot(arr, attr) ==
    IF Len(arr) <= 1 THEN arr
    ELSE LET pivot == arr[(Len(arr) \div 2) + 1]
             pv == sort_key(pivot, attr)
             left == SelectSeq(arr, LAMBDA x : sort_key(x, attr) < pv)
             right == SelectSeq(arr, LAMBDA x : sort_key(x, attr) > pv)
         IN  quick_sort(left, attr) \o <<pivot>> \o quick_sort(right, attr)

\* quick_sort of run_sort; the pivot is arr[len(arr)//2], counted from 0
quick_sort(arr, attr) ==
    IF Len(arr) <= 1 THEN arr
    ELSE LET pivot == arr[(Len(arr) \div 2) + 1]
             pv == sort_key(pivot, attr)
             left == SelectSeq(arr, LAMBDA x : sort_key(x, attr) < pv)
             mid == SelectSeq(arr, LAMBDA x : sort_key(x, attr) = pv)
             right == SelectSeq(arr, LAMBDA x : sort_key(x, attr) > pv)
         IN  quick_sort(left, attr) \o mid \o quick_sort(right, attr)

\* run_sort: the list assigned to displayed_coins
sort_view(view, attr, ascending) ==
    LET sorted_list == quick_sort(view, attr)
    IN  IF ascending THEN sorted_list ELSE reverse(sorted_list)

\* the dict handed to init_coin_detail for a quote c of the snapshot
coin_detail(c) == [name |-> c.NAME, symbol |-> c.SYMBOL, price |-> c.PRICE_USD,
                   change |-> c.SPOT_MOVING_24_HOUR_CHANGE_PERCENTAGE_USD]

\* the dict handed to init_coin_detail for coin_data = {} (a held symbol that
\* the snapshot does not list): c.get("SYMBOL", "") and so on
coin_detail_empty == [name |-> <<>>, symbol |-> SymNone, price |-> 0, change |-> 0]

\* coin_data of a holdings row, then the dict of its Buy/Sell menu commands
holding_coin(snapshot, sym) ==
    IF \E i \in 1..Len(snapshot) : snapshot[i].SYMBOL = sym
    THEN coin_detail(snapshot[CHOOSE i \in 1..Len(snapshot) :
                        /\ snapshot[i].SYMBOL = sym
                        /\ \A j \in 1..(i - 1) : snapshot[j].SYMBOL # sym])
    ELSE coin_detail_empty

\* the coins a trade form can be opened for: a row of the Buy/Sell table or
\* the context menu of a holdings row
trade_coins == {coin_detail(displayed_coins[i]) : i \in 1..Len(displayed_coins)}
                 \cup {holding_coin(cached_coins_data, sym) : sym \in DOMAIN holdings}

-----------------------------------------------------------------------------
(* Activity log and persistence *)

\* f"Deposited ${amount:.2f} USD"
deposit_desc(amount) ==
    <<"D", "e", "p", "o", "s", "i", "t", "e", "d", " ", "$">> \o Fmt2(amount)
        \o <<" ", "U", "S", "D">>

\* f"Withdrew ${amount:.2f} USD"
withdraw_desc(amount) ==
    <<"W", "i", "t", "h", "d", "r", "e", "w", " ", "$">> \o Fmt2(amount)
        \o <<" ", "U", "S", "D">>

\* result_msg of execute_trade
result_msg(action, qty, sym, pay_amt) ==
    (IF action = "Buy" THEN <<"B", "o", "u", "g", "h", "t", " ">>
                       ELSE <<"S", "o", "l", "d", " ">>)
        \o Fmt6(qty) \o <<" ">> \o sym \o <<" ", "f", "o", "r", " ", "$">>
        \o Fmt2(pay_amt) \o <<" ", "U", "S", "D">>

\* activity_msg cutting at 30 characters, without the ellipsis
activity_msg_cut_at_max(msg) ==
    IF Len(msg) <= MsgMax THEN msg ELSE SubSeq(msg, 1, MsgMax)

\* msg = result_msg if len(result_msg) <= 30 else result_msg[:27] + "…"
activity_msg(msg) ==
    IF Len(msg) <= MsgMax THEN msg ELSE SubSeq(msg, 1, MsgKeep) \o <<Ellipsis>>

\* color = "red" if action == "Buy" else "green"
trade_color(action) == IF action = "Buy" THEN "red" ELSE "green"

\* record_activity with pop(0) in place of pop(): the newest entry is dropped
record_activity_pop_front(act, entry) ==
    LET inserted == <<entry>> \o act
    IN  IF Len(inserted) > ActivityMax THEN Tail(inserted) ELSE inserted

\* self.activity.insert(0, entry); if len(self.activity) > 5: self.activity.pop()
record_activity(act, entry) ==
    LET inserted == <<entry>> \o act
    IN  IF Len(inserted) > ActivityMax
        THEN SubSeq(inserted, 1, Len(inserted) - 1)
        ELSE inserted

\* serialized_activity written oldest entry first
serialized_activity_oldest_first(act) ==
    [i \in 1..Len(act) |-> [desc |-> act[Len(act) - i + 1].desc,
                            color |-> act[Len(act) - i + 1].color]]

\* serialized_activity of save_user_data
serialized_activity(act) ==
    [i \in 1..Len(act) |-> [desc |-> act[i].desc, color |-> act[i].color]]

\* the activity list login rebuilds from a record
loaded_activity(raw_act) ==
    [i \in 1..Len(raw_act) |->
        [icon |-> "usd", desc |-> raw_act[i].desc, color |-> raw_act[i].color]]

\* the directory as a handler sees it: the files, and the writes it has made
disk_of(f) == [files |-> f, writes |-> <<>>]

\* save_user_data with the holdings left out of the record
save_user_data_without_holdings(disk, username, password, balance, hold, act) ==
    LET data == [username |-> username,
                 password |-> password,
                 balance  |-> balance,
                 holdings |-> EmptyDict,
                 activity |-> serialized_activity(act)]
    IN  [files |-> Put(disk.files, username, data),
         writes |-> Append(disk.writes, data)]

\* save_user_data writing the record to one file for all users: the first
\* file of the directory, or the user's own when there is none
save_user_data_one_file(disk, username, password, balance, hold, act) ==
    LET data == [username |-> username,
                 password |-> password,
                 balance  |-> balance,
                 holdings |-> hold,
                 activity |-> serialized_activity(act)]
        path == IF DOMAIN disk.files = {} THEN username
                ELSE CHOOSE u \in DOMAIN disk.files : TRUE
    IN  [files |-> Put(disk.files, path, data),
         writes |-> Append(disk.writes, data)]

\* save_user_data: writes the whole record to user_data/{current_username}.json
save_user_data(disk, username, password, balance, hold, act) ==
    LET data == [username |-> username,
                 password |-> password,
                 balance  |-> balance,
                 holdings |-> hold,
                 activity |-> serialized_activity(act)]
    IN  [files |-> Put(disk.files, username, data),
         writes |-> Append(disk.writes, data)]

\* the ghost log: every entry recorded for a username, oldest first
note_recorded(rec, username, entry) ==
    Put(rec, username, Append(Get(rec, username, <<>>),
                              [desc |-> entry.desc, color |-> entry.color]))

-----------------------------------------------------------------------------
(* Validation and arithmetic of the ledger operations *)

\* amount_invalid with < in place of <=: an amount of 0 passes
amount_invalid_zero_passes(none, amount) == none \/ amount < 0

\* deposit/withdraw: if amount is None or amount <= 0: return
amount_invalid(none, amount) == none \/ amount <= 0

\* withdraw_insufficient with >= in place of >: the whole balance cannot be withdrawn
withdraw_insufficient_or_equal(amount, balance) == amount >= balance

\* withdraw: if amount > self.current_balance
withdraw_insufficient(amount, balance) == amount > balance

\* buy_insufficient with the comparison inverted
buy_insufficient_inverted(pay_amt, balance) == pay_amt < balance

\* execute_trade, Buy: if pay_amt > self.current_balance
buy_insufficient(pay_amt, balance) == pay_amt > balance

\* execute_trade, Sell: owned = self.holdings.get(sym, 0); if qty > owned
sell_insufficient(qty, hold, sym) == qty > Get(hold, sym, 0)

\* execute_trade, Sell: self.holdings[sym] -= qty raises KeyError
sell_key_error(hold, sym) == sym \notin DOMAIN hold

\* the balance after an accepted trade
trade_balance(action, balance, pay_amt) ==
    IF action = "Buy" THEN balance - pay_amt ELSE balance + pay_amt

\* trade_holdings with a Buy that overwrites the holding instead of adding to it
trade_holdings_overwrite(action, hold, sym, qty) ==
    IF action = "Buy" THEN Put(hold, sym, qty)
                      ELSE Put(hold, sym, hold[sym] - qty)

\* the holdings after an accepted trade
trade_holdings(action, hold, sym, qty) ==
    IF action = "Buy" THEN Put(hold, sym, Get(hold, sym, 0) + qty)
                      ELSE Put(hold, sym, hold[sym] - qty)

\* register: the "Please fill in all fields." test
fields_missing(username, password) ==
    \/ username = <<>>
    \/ password = <<>>
    \/ username = PlaceholderUsername
    \/ password = PlaceholderPassword

\* user_exists without the test: every username counts as new
user_exists_never(f, username) == FALSE

\* os.path.exists(self.user_data_path(username))
user_exists(f, username) == username \in DOMAIN f

\* login's test without the password: any record of the username logs in
login_rejected_any_password(f, username, password) == ~user_exists(f, username)

\* login: data is None or data.get("password") != password
login_rejected(f, username, password) ==
    \/ ~user_exists(f, username)
    \/ f[username].password # password

-----------------------------------------------------------------------------
(* Net worths of the Leaderboard tab *)

\* a coin is a million of the units its quantities are counted in
Micro == 1000000

\* a sum of money of c cents and u millionths of a cent, u brought to 0..Micro-1
money(c, u) == [c |-> c + (u \div Micro), u |-> u % Micro]

\* x + y for two sums of money
plus(x, y) == money(x.c + y.c, x.u + y.u)

\* x >= y for two sums of money
at_least(x, y) == x.c > y.c \/ (x.c = y.c /\ x.u >= y.u)

\* price * amt: a price in cents per coin times a quantity in millionths of a
\* coin, computed in parts of three digits so that no product leaves 32 bits
times(price, amt) ==
    LET aw == amt \div Micro
        af == amt % Micro
        ph == price \div 1000
        pl == price % 1000
        ah == af \div 1000
        al == af % 1000
        m  == ph * al + pl * ah
    IN  money(price * aw + ph * ah + (m \div 1000), (m % 1000) * 1000 + pl * al)

\* next((c["PRICE_USD"] for c in self.cached_coins_data if c["SYMBOL"] == sym), 0.0)
price_of(snapshot, sym) ==
    IF \E i \in 1..Len(snapshot) : snapshot[i].SYMBOL = sym
    THEN snapshot[CHOOSE i \in 1..Len(snapshot) :
                    /\ snapshot[i].SYMBOL = sym
                    /\ \A j \in 1..(i - 1) : snapshot[j].SYMBOL # sym].PRICE_USD
    ELSE 0

RECURSIVE total_assets(_, _, _)

\* the loop over holdings.items(): total_assets += price * amt
total_assets(hold, syms, snapshot) ==
    IF syms = {} THEN money(0, 0)
    ELSE LET sym == CHOOSE x \in syms : TRUE
         IN  plus(total_assets(hold, syms \ {sym}, snapshot),
                  times(price_of(snapshot, sym), hold[sym]))

\* net_worth with the balance left out
net_worth_assets_only(data, snapshot) ==
    total_assets(data.holdings, DOMAIN data.holdings, snapshot)

\* bal + total_assets of one account
net_worth(data, snapshot) ==
    plus(money(data.balance, 0),
         total_assets(data.holdings, DOMAIN data.holdings, snapshot))

\* the orders in which os.listdir can list the files of user_data/
listdir(f) ==
    {order \in [1..Cardinality(DOMAIN f) -> DOMAIN f] :
        \A i, j \in 1..Cardinality(DOMAIN f) : order[i] = order[j] => i = j}

\* networths, in the order of load_all_users_data
networths(f, order, snapshot) ==
    [i \in 1..Len(order) |->
        [username |-> order[i], nw |-> net_worth(f[order[i]], snapshot)]]

RECURSIVE sort_reverse(_)

\* the ranking without the sort: the accounts as listed
sort_skipped(list) == list

\* networths.sort(key=lambda x: x[1], reverse=True): a stable sort, the greater
\* net worth first, equal ones in the order of the list
sort_reverse(list) ==
    IF list = <<>> THEN <<>>
    ELSE LET x == list[Len(list)]
             sorted == sort_reverse(SubSeq(list, 1, Len(list) - 1))
             k == Cardinality({i \in 1..Len(sorted) : at_least(sorted[i].nw, x.nw)})
         IN  SubSeq(sorted, 1, k) \o <<x>> \o SubSeq(sorted, k + 1, Len(sorted))

\* execute_trade paying the price of the coin's quote times the quantity,
\* in whole cents, instead of the pay amount it is called with
trade_amounts_repriced(coin, pay_amt, qty) ==
    [pay_amt |-> times(coin.price, qty).c, qty |-> qty]

\* the amounts execute_trade applies: pay_amt and qty as it is called with
\* them; coin["price"] is not read
trade_amounts(coin, pay_amt, qty) == [pay_amt |-> pay_amt, qty |-> qty]

-----------------------------------------------------------------------------
(* The handler that ran last *)

NoLast == [op |-> "init", res |-> "ok", username |-> <<>>, password |-> <<>>,
           none |-> FALSE, amount |-> 0, action |-> "", sym |-> <<>>,
           pay_amt |-> 0, qty |-> 0, price |-> 0, writes |-> <<>>,
           query |-> <<>>, attr |-> "", ascending |-> TRUE, view |-> <<>>,
           ranking |-> <<>>]

ledger == <<files, current_username, current_password, current_balance, holdings,
            activity, recorded, nops>>

market == <<cached_coins_data, displayed_coins>>

\* a handler that returns before it changes anything
returns(label, res) ==
    /\ last' = [label EXCEPT !.res = res]
    /\ UNCHANGED <<ledger, market, screen>>

-----------------------------------------------------------------------------
(* State after construction: __init__, with an empty user_data/ directory *)

Init ==
    /\ files = EmptyDict
    /\ current_username = <<>>
    /\ current_password = <<>>
    /\ current_balance = 0
    /\ holdings = EmptyDict
    /\ activity = <<>>
    /\ cached_coins_data = <<>>
    /\ displayed_coins = <<>>
    /\ screen = "login"
    /\ last = NoLast
    /\ recorded = EmptyDict
    /\ nops = 0

-----------------------------------------------------------------------------
(* Handlers *)

\* register(): the "Register Now" label of the login screen
register(username_in, password_in) ==
    /\ screen = "login"
    /\ LET username == Strip(username_in)
           password == Strip(password_in)
           label == [NoLast EXCEPT !.op = "register", !.username = username,
                                   !.password = password]
       IN  IF fields_missing(username, password) THEN returns(label, "invalid")
           ELSE IF user_exists(files, username) THEN returns(label, "duplicate")
           ELSE /\ current_username' = username
                /\ current_password' = password
                /\ current_balance' = 0
                /\ holdings' = EmptyDict
                /\ activity' = <<>>
                /\ LET disk == save_user_data(disk_of(files), username, password,
                                              0, EmptyDict, <<>>)
                   IN  /\ files' = disk.files
                       /\ last' = [label EXCEPT !.writes = disk.writes]
                /\ recorded' = Put(recorded, username, <<>>)
                /\ UNCHANGED <<market, screen, nops>>

\* login(): the Login button; init_dashboard fetches the quotes
login(username_in, password_in, fetched) ==
    /\ screen = "login"
    /\ LET username == Strip(username_in)
           password == Strip(password_in)
           label == [NoLast EXCEPT !.op = "login", !.username = username,
                                   !.password = password]
       IN  IF login_rejected(files, username, password)
           THEN returns(label, "auth_failed")
           ELSE /\ current_username' = username
                /\ current_password' = password
                /\ current_balance' = files[username].balance
                /\ holdings' = files[username].holdings
                /\ activity' = loaded_activity(files[username].activity)
                /\ cached_coins_data' = fetched
                /\ displayed_coins' = fetched
                /\ screen' = "dashboard"
                /\ last' = label
                /\ UNCHANGED <<files, recorded, nops>>

\* the Logout button: init_login_screen
logout ==
    /\ screen = "dashboard"
    /\ screen' = "login"
    /\ last' = [NoLast EXCEPT !.op = "logout"]
    /\ UNCHANGED <<ledger, market>>

\* deposit(): none is a cancelled prompt (askfloat returns None)
deposit(none, amount, budget) ==
    /\ screen = "dashboard"
    /\ LET label == [NoLast EXCEPT !.op = "deposit", !.none = none, !.amount = amount]
       IN  IF amount_invalid(none, amount) THEN returns(label, "invalid")
           ELSE /\ nops < budget
                /\ LET balance == current_balance + amount
                       entry == [icon |-> "usd", desc |-> deposit_desc(amount),
                                 color |-> "green"]
                       act == record_activity(activity, entry)
                   IN  /\ current_balance' = balance
                       /\ activity' = act
                       /\ LET disk == save_user_data(disk_of(files), current_username,
                                           current_password, balance, holdings, act)
                          IN  /\ files' = disk.files
                              /\ last' = [label EXCEPT !.writes = disk.writes]
                       /\ recorded' = note_recorded(recorded, current_username, entry)
                /\ nops' = nops + 1
                /\ UNCHANGED <<current_username, current_password, holdings, market, screen>>

\* withdraw()
withdraw(none, amount, budget) ==
    /\ screen = "dashboard"
    /\ LET label == [NoLast EXCEPT !.op = "withdraw", !.none = none, !.amount = amount]
       IN  IF amount_invalid(none, amount) THEN returns(label, "invalid")
           ELSE IF withdraw_insufficient(amount, current_balance)
           THEN returns(label, "insufficient_funds")
           ELSE /\ nops < budget
                /\ LET balance == current_balance - amount
                       entry == [icon |-> "usd", desc |-> withdraw_desc(amount),
                                 color |-> "red"]
                       act == record_activity(activity, entry)
                   IN  /\ current_balance' = balance
                       /\ activity' = act
                       /\ LET disk == save_user_data(disk_of(files), current_username,
                                           current_password, balance, holdings, act)
                          IN  /\ files' = disk.files
                              /\ last' = [label EXCEPT !.writes = disk.writes]
                       /\ recorded' = note_recorded(recorded, current_username, entry)
                /\ nops' = nops + 1
                /\ UNCHANGED <<current_username, current_password, holdings, market, screen>>

\* execute_trade(coin, action, pay_amt, qty): the action button of the trade
\* form; switch_to_buy_sell rebuilds the dashboard, which fetches the quotes
execute_trade(coin, action, pay_amt, qty, fetched, budget) ==
    /\ screen = "dashboard"
    /\ coin \in trade_coins
    /\ LET sym == coin.symbol
           applied == trade_amounts(coin, pay_amt, qty)
           label == [NoLast EXCEPT !.op = "trade", !.action = action, !.sym = sym,
                                   !.pay_amt = pay_amt, !.qty = qty,
                                   !.price = coin.price]
       IN  IF action = "Buy" /\ buy_insufficient(applied.pay_amt, current_balance)
           THEN returns(label, "insufficient_funds")
           ELSE IF action = "Sell" /\ sell_insufficient(applied.qty, holdings, sym)
           THEN returns(label, "insufficient_holdings")
           ELSE IF action = "Sell" /\ sell_key_error(holdings, sym)
           THEN returns(label, "key_error")
           ELSE /\ nops < budget
                /\ LET balance == trade_balance(action, current_balance,
                                                applied.pay_amt)
                       hold == trade_holdings(action, holdings, sym, applied.qty)
                       entry == [icon |-> "coin",
                                 desc |-> activity_msg(result_msg(action, applied.qty,
                                                          sym, applied.pay_amt)),
                                 color |-> trade_color(action)]
                       act == record_activity(activity, entry)
                   IN  /\ current_balance' = balance
                       /\ holdings' = hold
                       /\ activity' = act
                       /\ LET disk == save_user_data(disk_of(files), current_username,
                                           current_password, balance, hold, act)
                          IN  /\ files' = disk.files
                              /\ last' = [label EXCEPT !.writes = disk.writes]
                       /\ recorded' = note_recorded(recorded, current_username, entry)
                /\ cached_coins_data' = fetched
                /\ displayed_coins' = fetched
                /\ nops' = nops + 1
                /\ UNCHANGED <<current_username, current_password, screen>>

\* the Delete command of a holdings row's context menu
delete_holding(sym, budget) ==
    /\ screen = "dashboard"
    /\ sym \in DOMAIN holdings
    /\ nops < budget
    /\ holdings' = Pop(holdings, sym)
    /\ LET disk == save_user_data(disk_of(files), current_username, current_password,
                                  current_balance, Pop(holdings, sym), activity)
       IN  /\ files' = disk.files
           /\ last' = [NoLast EXCEPT !.op = "delete", !.sym = sym,
                                     !.writes = disk.writes]
    /\ nops' = nops + 1
    /\ UNCHANGED <<current_username, current_password, current_balance, activity,
                   recorded, market, screen>>

\* clear_all_user_data(): the "Reset All Accounts" button of the Settings tab
clear_all_user_data(confirm) ==
    /\ screen = "dashboard"
    /\ LET label == [NoLast EXCEPT !.op = "reset"]
       IN  IF ~confirm THEN returns(label, "cancelled")
           ELSE /\ files' = EmptyDict
                /\ last' = label
                /\ UNCHANGED <<current_username, current_password, current_balance,
                               holdings, activity, recorded, nops, market, screen>>

\* run_search over the displayed rows instead of the cached snapshot
run_search_of_view(query_in) ==
    /\ screen = "dashboard"
    /\ displayed_coins' = search_view(displayed_coins, lower(Strip(query_in)))
    /\ last' = [NoLast EXCEPT !.op = "search", !.query = Strip(query_in),
                         !.view = displayed_coins]
    /\ UNCHANGED <<ledger, cached_coins_data, screen>>

\* run_search(): the Search button of the Buy/Sell tab
run_search(query_in) ==
    /\ screen = "dashboard"
    /\ displayed_coins' = search_view(cached_coins_data, lower(Strip(query_in)))
    /\ last' = [NoLast EXCEPT !.op = "search", !.query = Strip(query_in),
                         !.view = displayed_coins]
    /\ UNCHANGED <<ledger, cached_coins_data, screen>>

\* run_sort sorting the cached snapshot too, as list.sort() on it would
run_sort_in_place(attr, ascending) ==
    /\ screen = "dashboard"
    /\ displayed_coins' = sort_view(displayed_coins, attr, ascending)
    /\ cached_coins_data' = sort_view(cached_coins_data, attr, ascending)
    /\ last' = [NoLast EXCEPT !.op = "sort", !.attr = attr, !.ascending = ascending,
                         !.view = displayed_coins]
    /\ UNCHANGED <<ledger, screen>>

\* run_sort(attr, ascending): a command of the Filter menu of the Buy/Sell tab
run_sort(attr, ascending) ==
    /\ screen = "dashboard"
    /\ LET label == [NoLast EXCEPT !.op = "sort", !.attr = attr,
                                   !.ascending = ascending,
                                   !.view = displayed_coins]
       IN  IF quick_sort_raises(displayed_coins, attr)
           THEN returns(label, "value_error")
           ELSE /\ displayed_coins' = sort_view(displayed_coins, attr, ascending)
                /\ last' = label
                /\ UNCHANGED <<ledger, cached_coins_data, screen>>

\* switch_to_buy_sell(): the Back button of a coin's detail view, which a row
\* of the Buy/Sell table or the menu of a holdings row opens; init_dashboard
\* fetches the quotes again
switch_to_buy_sell(fetched) ==
    /\ screen = "dashboard"
    /\ trade_coins # {}
    /\ cached_coins_data' = fetched
    /\ displayed_coins' = fetched
    /\ last' = [NoLast EXCEPT !.op = "back"]
    /\ UNCHANGED <<ledger, screen>>

\* the Leaderboard tab dropping from the records the holdings it finds no
\* price for
leaderboard_prunes(order) ==
    /\ screen = "dashboard"
    /\ last' = [NoLast EXCEPT !.op = "leaderboard",
                   !.ranking = sort_reverse(networths(files, order, cached_coins_data))]
    /\ files' = [u \in DOMAIN files |->
                   [files[u] EXCEPT !.holdings =
                       [sym \in {x \in DOMAIN files[u].holdings :
                                   \E i \in 1..Len(cached_coins_data) :
                                       cached_coins_data[i].SYMBOL = x}
                           |-> files[u].holdings[sym]]]]
    /\ UNCHANGED <<current_username, current_password, current_balance, holdings,
                   activity, recorded, nops, market, screen>>

\* switch_tab("Leaderboard"): the Leaderboard button of the sidebar; order is
\* the order in which os.listdir lists the files
leaderboard(order) ==
    /\ screen = "dashboard"
    /\ last' = [NoLast EXCEPT !.op = "leaderboard",
                   !.ranking = sort_reverse(networths(files, order, cached_coins_data))]
    /\ UNCHANGED <<ledger, market, screen>>

-----------------------------------------------------------------------------
(* Inputs *)

\* prompt answers of deposit and withdraw, in cents
AmountInputs == {-50000, 0, 50000, 100000}

\* (pay_amt in cents, qty in millionths) typed into the trade form
TradeInputs == {<<50000, 250000>>, <<0, 0>>, <<0, 250000>>, <<-50000, -250000>>}

AllCoins == {coin_detail(QuoteETH), coin_detail_empty}

-----------------------------------------------------------------------------
(* Spec: one account, every handler, the ledger inputs in full *)

Register == register(<<"a">>, <<"p">>)

Login == \E f \in fetch_coin_data : login(<<"a">>, <<"p">>, f)

Logout == logout

Deposit == \E none \in BOOLEAN, amount \in AmountInputs :
              (none => amount = 0) /\ deposit(none, amount, MaxOps)

Withdraw == \E none \in BOOLEAN, amount \in AmountInputs :
               (none => amount = 0) /\ withdraw(none, amount, MaxOps)

ExecuteTrade == \E coin \in AllCoins, action \in {"Buy", "Sell"}, t \in TradeInputs,
                   f \in fetch_coin_data :
                   execute_trade(coin, action, t[1], t[2], f, MaxOps)

DeleteHolding == \E sym \in DOMAIN holdings : delete_holding(sym, MaxOps)

Reset == \E confirm \in BOOLEAN : clear_all_user_data(confirm)

Next ==
    \/ Register
    \/ Login
    \/ Logout
    \/ Deposit
    \/ Withdraw
    \/ ExecuteTrade
    \/ DeleteHolding
    \/ Reset

Spec == Init /\ [][Next]_vars

-----------------------------------------------------------------------------
(* SpecLog: one account, long runs of accepted ledger operations *)

LogRegister == register(<<"a">>, <<"p">>)

LogLogin == login(<<"a">>, <<"p">>, <<QuoteETH>>)

LogLogout == logout

LogDeposit == deposit(FALSE, 50000, MaxLogOps)

LogWithdraw == withdraw(FALSE, 50000, MaxLogOps)

LogTrade == \E action \in {"Buy", "Sell"} :
               execute_trade(coin_detail(QuoteETH), action, 50000, 250000,
                             <<QuoteETH>>, MaxLogOps)

NextLog ==
    \/ LogRegister
    \/ LogLogin
    \/ LogLogout
    \/ LogDeposit
    \/ LogWithdraw
    \/ LogTrade

SpecLog == Init /\ [][NextLog]_vars

-----------------------------------------------------------------------------
(* SpecAccounts: several usernames and passwords, few ledger operations *)

UsernameInputs == {<<"a">>, <<"a", " ">>, <<"b">>, PlaceholderUsername}
PasswordInputs == {<<"p">>, <<"p", " ">>, <<"q">>, <<" ">>}

AccRegister == \E u \in UsernameInputs, p \in PasswordInputs : register(u, p)

AccLogin == \E u \in UsernameInputs, p \in PasswordInputs :
               login(u, p, <<QuoteETH>>)

AccLogout == logout

AccDeposit == deposit(FALSE, 50000, MaxAccOps)

AccWithdraw == withdraw(FALSE, 50000, MaxAccOps)

AccTrade == execute_trade(coin_detail(QuoteETH), "Buy", 50000, 250000,
                          <<QuoteETH>>, MaxAccOps)

AccReset == clear_all_user_data(TRUE)

NextAccounts ==
    \/ AccRegister
    \/ AccLogin
    \/ AccLogout
    \/ AccDeposit
    \/ AccWithdraw
    \/ AccTrade
    \/ AccReset

SpecAccounts == Init /\ [][NextAccounts]_vars

-----------------------------------------------------------------------------
(* SpecMarket: the Buy/Sell table of one user over price lists of several
   quotes, some with equal prices, market caps or changes *)

\* texts of the search box
QueryInputs == {<<>>, <<" ">>, <<"e", "t", "h">>, <<"E", "T", "H">>,
                <<"B">>, <<"b", "t">>, <<" ", "u", "s", "d", " ">>,
                <<"t">>, <<"z", "z">>}

MktRegister == register(<<"a">>, <<"p">>)

MktLogin == \E f \in fetch_top_list : login(<<"a">>, <<"p">>, f)

MktLogout == logout

MktSearch == \E q \in QueryInputs : run_search(q)

MktSort == \E attr \in SortAttrs, ascending \in BOOLEAN : run_sort(attr, ascending)

MktBack == \E f \in fetch_top_list : switch_to_buy_sell(f)

NextMarket ==
    \/ MktRegister
    \/ MktLogin
    \/ MktLogout
    \/ MktSearch
    \/ MktSort
    \/ MktBack

SpecMarket == Init /\ [][NextMarket]_vars

-----------------------------------------------------------------------------
(* SpecFields: the Buy/Sell table over responses with quotes whose sort
   fields are missing, null or a text that is not a number *)

FieldQueries == {<<>>, <<"d", "o", "g", "e">>, <<"c">>, <<"a">>}

FldRegister == register(<<"a">>, <<"p">>)

FldLogin == \E f \in fetch_fields : login(<<"a">>, <<"p">>, f)

FldLogout == logout

FldSearch == \E q \in FieldQueries : run_search(q)

FldSort == \E attr \in SortAttrs, ascending \in BOOLEAN : run_sort(attr, ascending)

NextFields ==
    \/ FldRegister
    \/ FldLogin
    \/ FldLogout
    \/ FldSearch
    \/ FldSort

SpecFields == Init /\ [][NextFields]_vars

-----------------------------------------------------------------------------
(* SpecPrice: trades of one user while the price of the coin changes from
   one response to the next *)

\* the quote of ETH at another price
QuoteETHLater == [QuoteETH EXCEPT !.PRICE_USD = 250000]

\* the responses of the SpecPrice runs
fetch_prices == {<<QuoteETH>>, <<QuoteETHLater>>}

\* pay amount and quantity of the trade form: 0.25 ETH for 500.00, for
\* nothing, and for 1000.00
PricePairs == {<<50000, 250000>>, <<0, 250000>>, <<100000, 250000>>}

PrcRegister == register(<<"a">>, <<"p">>)

PrcLogin == \E f \in fetch_prices : login(<<"a">>, <<"p">>, f)

PrcLogout == logout

PrcDeposit == deposit(FALSE, 50000, MaxPriceOps)

PrcTrade == \E coin \in trade_coins, action \in {"Buy", "Sell"}, t \in PricePairs,
               f \in fetch_prices :
               execute_trade(coin, action, t[1], t[2], f, MaxPriceOps)

NextPrice ==
    \/ PrcRegister
    \/ PrcLogin
    \/ PrcLogout
    \/ PrcDeposit
    \/ PrcTrade

SpecPrice == Init /\ [][NextPrice]_vars

-----------------------------------------------------------------------------
(* SpecRank: the Leaderboard tab over the records of two users who deposit
   and buy, with and without the quotes of what they hold *)

\* the responses of the Leaderboard runs
fetch_rank == {<<>>, <<QuoteBTC, QuoteETH>>}

\* deposits of 300.00, 300.50 and 100100.00
RankAmounts == {30000, 30050, 10010000}

RankRegister == \E u \in {<<"a">>, <<"b">>} : register(u, <<"p">>)

RankLogin == \E u \in {<<"a">>, <<"b">>}, f \in fetch_rank : login(u, <<"p">>, f)

RankLogout == logout

RankDeposit == \E amount \in RankAmounts : deposit(FALSE, amount, MaxRankOps)

\* 2 BTC bought for 100000.00, 0.150251 ETH bought for 300.50
RankTrades == {<<QuoteBTC, 10000000, 2000000>>, <<QuoteETH, 30050, 150251>>}

RankTrade == \E t \in RankTrades, f \in fetch_rank :
                execute_trade(coin_detail(t[1]), "Buy", t[2], t[3], f, MaxRankOps)

RankLeaderboard == \E order \in listdir(files) : leaderboard(order)

NextRank ==
    \/ RankRegister
    \/ RankLogin
    \/ RankLogout
    \/ RankDeposit
    \/ RankTrade
    \/ RankLeaderboard

SpecRank == Init /\ [][NextRank]_vars

-----------------------------------------------------------------------------
(* Vocabulary of the properties *)

Min(a, b) == IF a < b THEN a ELSE b

\* the record that holds exactly the session's balance, holdings and activity
session_record ==
    [username |-> current_username,
     password |-> current_password,
     balance  |-> current_balance,
     holdings |-> holdings,
     activity |-> [i \in 1..Len(activity) |->
                      [desc |-> activity[i].desc, color |-> activity[i].color]]]

\* the current user's file holds the session's state
Persisted == /\ current_username \in DOMAIN files
             /\ files[current_username] = session_record

\* this step put exactly one entry of the given colour at the front of the log
OneEntryAdded(color) ==
    /\ Len(activity') = Min(Len(activity) + 1, 5)
    /\ activity'[1].color = color
    /\ \A i \in 2..Len(activity') : activity'[i] = activity[i - 1]

\* this step changed nothing of the account, in memory or on disk
NothingChanged ==
    /\ UNCHANGED <<current_balance, holdings, activity, files>>
    /\ last'.writes = <<>>

\* this step ran execute_trade for the given side
TradeStep(action) == last'.op = "trade" /\ last'.action = action

\* the amount of sym held, a missing symbol counting as 0
Held(sym) == IF sym \in DOMAIN holdings THEN holdings[sym] ELSE 0

-----------------------------------------------------------------------------
(* C1 *)

\* C1 (Solvency): the balance is never negative and no holding amount is ever
\* negative, whatever deposit, withdraw and execute_trade calls were made.
Solvency ==
    /\ current_balance >= 0
    /\ \A sym \in DOMAIN holdings : holdings[sym] >= 0

-----------------------------------------------------------------------------
(* C2 *)

\* C2 (Atomicity): a Buy with pay_amt > balance, or a Sell with qty > the held
\* amount, leaves balance, holdings, activity and the files as they were and
\* writes nothing.
TradeAtomicity ==
    [][ ( \/ TradeStep("Buy") /\ last'.pay_amt > current_balance
          \/ TradeStep("Sell") /\ last'.qty > Held(last'.sym) )
        => NothingChanged /\ last'.res # "ok" ]_vars

\* a Buy was rejected for a funded account that has holdings and a history
TradeAtomicityWitness ==
    /\ last.op = "trade"
    /\ last.action = "Buy"
    /\ last.res = "insufficient_funds"
    /\ DOMAIN holdings # {}
    /\ Len(activity) = 2
    /\ Persisted

-----------------------------------------------------------------------------
(* C3 *)

\* the k most recent entries of r, most recent first
MostRecent(r, k) == [i \in 1..k |-> r[Len(r) - i + 1]]

\* C3 (Activity bound): the log has at most 5 entries, and they are the
\* min(5, n) most recently recorded entries of the account, most recent first.
ActivityBound ==
    LET r == IF current_username \in DOMAIN recorded
             THEN recorded[current_username] ELSE <<>>
    IN  /\ Len(activity) <= 5
        /\ [i \in 1..Len(activity) |->
               [desc |-> activity[i].desc, color |-> activity[i].color]]
             = MostRecent(r, Min(5, Len(r)))

\* a sixth and a seventh entry were recorded, and the log holds different entries
ActivityBoundWitness ==
    /\ current_username \in DOMAIN recorded
    /\ Len(recorded[current_username]) >= 6
    /\ Len(activity) = 5
    /\ activity[1] # activity[5]
    /\ recorded[current_username][1] # activity[5]

-----------------------------------------------------------------------------
(* C4 *)

\* C4 (Buy): a Buy fails exactly when pay_amt > balance; otherwise the balance
\* drops by pay_amt, holdings[sym] grows by qty from its previous value (0 if
\* absent), the other holdings stay, and one red entry is put at the front.
BuyContract ==
    [][ TradeStep("Buy") =>
          IF last'.pay_amt > current_balance
          THEN last'.res # "ok" /\ NothingChanged
          ELSE /\ last'.res = "ok"
               /\ current_balance' = current_balance - last'.pay_amt
               /\ DOMAIN holdings' = DOMAIN holdings \cup {last'.sym}
               /\ holdings'[last'.sym] = Held(last'.sym) + last'.qty
               /\ \A sym \in DOMAIN holdings \ {last'.sym} :
                      holdings'[sym] = holdings[sym]
               /\ OneEntryAdded("red") ]_vars

\* a Buy that spent the whole balance: pay_amt = balance was accepted
BuyContractWitness ==
    /\ last.op = "trade"
    /\ last.action = "Buy"
    /\ last.res = "ok"
    /\ last.pay_amt > 0
    /\ current_balance = 0
    /\ holdings[last.sym] = last.qty
    /\ last.qty > 0
    /\ Len(activity) = 2

-----------------------------------------------------------------------------
(* C5 *)

\* C5 (Sell): a Sell fails exactly when qty exceeds the held amount (a missing
\* symbol counting as 0); every other Sell, of a held or a missing symbol,
\* completes: holdings[sym] drops by qty, the balance grows by the proceeds
\* and one green entry is added.
SellContract ==
    [][ TradeStep("Sell") =>
          IF last'.qty > Held(last'.sym)
          THEN last'.res = "insufficient_holdings" /\ NothingChanged
          ELSE /\ last'.res = "ok"
               /\ holdings'[last'.sym] = Held(last'.sym) - last'.qty
               /\ current_balance' = current_balance + last'.pay_amt
               /\ OneEntryAdded("green") ]_vars

-----------------------------------------------------------------------------
(* C6 *)

\* C6: a successful trade makes one insertion into the activity log and one
\* write, of the whole record, made after the balance and the holdings were
\* both updated: the record written holds both deltas and the new entry.
TradeWritesOnce ==
    [][ (last'.op = "trade" /\ last'.res = "ok") =>
          LET sign == IF last'.action = "Buy" THEN 1 ELSE -1
          IN  /\ Len(last'.writes) = 1
              /\ last'.writes[1] = session_record'
              /\ files' = [u \in DOMAIN files \cup {current_username} |->
                              IF u = current_username THEN last'.writes[1]
                              ELSE files[u]]
              /\ last'.writes[1].balance = current_balance - sign * last'.pay_amt
              /\ last'.writes[1].holdings[last'.sym]
                     = Held(last'.sym) + sign * last'.qty
              /\ Len(last'.writes[1].activity) = Min(Len(activity) + 1, 5)
              /\ OneEntryAdded(IF last'.action = "Buy" THEN "red" ELSE "green") ]_vars

\* a Sell that moved both the balance and a holding, and was written
TradeWritesOnceWitness ==
    /\ last.op = "trade"
    /\ last.action = "Sell"
    /\ last.res = "ok"
    /\ last.pay_amt > 0
    /\ last.qty > 0
    /\ Len(last.writes) = 1
    /\ Persisted

-----------------------------------------------------------------------------
(* C7 *)

\* the text the trade is described by: "Bought {qty:.6f} {sym} for ${pay:.2f} USD"
\* or "Sold {qty:.6f} {sym} for ${pay:.2f} USD"
TradeText(action, qty, sym, pay_amt) ==
    (IF action = "Buy" THEN <<"B", "o", "u", "g", "h", "t">> ELSE <<"S", "o", "l", "d">>)
        \o <<" ">> \o Fmt6(qty) \o <<" ">> \o sym \o <<" ", "f", "o", "r", " ", "$">>
        \o Fmt2(pay_amt) \o <<" ", "U", "S", "D">>

\* "Bought 0.250000 ETH for $500.00 USD"
ExampleText ==
    <<"B", "o", "u", "g", "h", "t", " ", "0", ".", "2", "5", "0", "0", "0", "0", " ",
      "E", "T", "H", " ", "f", "o", "r", " ", "$", "5", "0", "0", ".", "0", "0", " ",
      "U", "S", "D">>

\* "Bought 0.250000 ETH for $50" followed by the ellipsis character
ExampleStored ==
    <<"B", "o", "u", "g", "h", "t", " ", "0", ".", "2", "5", "0", "0", "0", "0", " ",
      "E", "T", "H", " ", "f", "o", "r", " ", "$", "5", "0", Ellipsis>>

TradeOk == last'.op = "trade" /\ last'.res = "ok"

\* C7 as stated: the entry stored for a successful trade has the full text as
\* its description, whatever the length of that text.
TradeMessageFull ==
    [][ TradeOk => activity'[1].desc
                     = TradeText(last'.action, last'.qty, last'.sym, last'.pay_amt) ]_vars

\* C7 as amended: the description is the full text when that has at most 30
\* characters, and otherwise its first 27 characters followed by an ellipsis;
\* buying 0.25 ETH for 500.0 stores "Bought 0.250000 ETH for $50" + ellipsis.
TradeMessageCut ==
    [][ TradeOk =>
          LET full == TradeText(last'.action, last'.qty, last'.sym, last'.pay_amt)
              example == /\ last'.action = "Buy" /\ last'.sym = SymETH
                         /\ last'.qty = 250000 /\ last'.pay_amt = 50000
          IN  /\ activity'[1].desc = IF Len(full) <= 30 THEN full
                                     ELSE SubSeq(full, 1, 27) \o <<Ellipsis>>
              /\ example => full = ExampleText /\ activity'[1].desc = ExampleStored ]_vars

\* 0.25 ETH was bought for 500.00 and the entry stored for it is the cut text
TradeMessageCutWitness ==
    /\ last.op = "trade"
    /\ last.res = "ok"
    /\ last.action = "Buy"
    /\ last.sym = SymETH
    /\ last.qty = 250000
    /\ last.pay_amt = 50000
    /\ activity[1].desc = ExampleStored
    /\ files[current_username].activity[1].desc = ExampleStored

-----------------------------------------------------------------------------
(* C8 *)

\* C8 (Deposit): a cancelled prompt or an amount <= 0 changes nothing; an
\* amount > 0 raises the balance by exactly the amount, leaves the holdings,
\* puts one green entry at the front of the log and persists the account.
DepositContract ==
    [][ last'.op = "deposit" =>
          IF last'.none \/ last'.amount <= 0
          THEN NothingChanged
          ELSE /\ current_balance' = current_balance + last'.amount
               /\ holdings' = holdings
               /\ OneEntryAdded("green")
               /\ Persisted'
               /\ last'.writes # <<>> ]_vars

\* a deposit into an account that has holdings and an earlier entry
DepositContractWitness ==
    /\ last.op = "deposit"
    /\ last.res = "ok"
    /\ last.amount > 0
    /\ current_balance >= last.amount
    /\ DOMAIN holdings # {}
    /\ Len(activity) = 2
    /\ activity[1].color = "green"
    /\ Persisted

-----------------------------------------------------------------------------
(* C9 *)

\* C9 (Withdraw): an amount <= 0 or > balance changes nothing; any other
\* amount, the whole balance included, lowers the balance by exactly the
\* amount, leaves the holdings and puts one red entry at the front of the log.
WithdrawContract ==
    [][ (last'.op = "withdraw" /\ ~last'.none) =>
          IF last'.amount <= 0 \/ last'.amount > current_balance
          THEN last'.res # "ok" /\ NothingChanged
          ELSE /\ last'.res = "ok"
               /\ current_balance' = current_balance - last'.amount
               /\ holdings' = holdings
               /\ OneEntryAdded("red") ]_vars

\* the whole balance was withdrawn
WithdrawContractWitness ==
    /\ last.op = "withdraw"
    /\ last.res = "ok"
    /\ last.amount > 0
    /\ current_balance = 0
    /\ Len(activity) = 2
    /\ activity[1].color = "red"

-----------------------------------------------------------------------------
(* C10 *)

\* this step ran register for a username that has a record
RegisterExisting == last'.op = "register" /\ last'.username \in DOMAIN files

\* this step ran register for a username that has no record
RegisterNew == last'.op = "register" /\ last'.username \notin DOMAIN files

\* after this step the username has a record with balance 0 and nothing else
CreatedEmpty ==
    /\ last'.username \in DOMAIN files'
    /\ files'[last'.username] = [username |-> last'.username,
                                 password |-> last'.password,
                                 balance  |-> 0,
                                 holdings |-> EmptyDict,
                                 activity |-> <<>>]
    /\ \A u \in DOMAIN files : files'[u] = files[u]

\* the form was filled in: a username and a password, neither the placeholder
FilledIn ==
    /\ last'.username # <<>> /\ last'.username # PlaceholderUsername
    /\ last'.password # <<>> /\ last'.password # PlaceholderPassword

\* C10 as stated: registering a username that has a record fails and leaves
\* the record as it was; registering a new username produces a persisted
\* account with balance 0, no holdings and no activity.
RegisterContract ==
    [][ /\ RegisterExisting => last'.res # "ok" /\ files' = files
        /\ RegisterNew => CreatedEmpty ]_vars

\* C10 as amended: the same, the new account being produced when the form is
\* filled in; with a field left empty or at its placeholder nothing is created.
RegisterContractFilledIn ==
    [][ /\ RegisterExisting => last'.res # "ok" /\ files' = files
        /\ (RegisterNew /\ FilledIn) => last'.res = "ok" /\ CreatedEmpty
        /\ (RegisterNew /\ ~FilledIn) => last'.res # "ok" /\ files' = files ]_vars

\* a username that has a funded record was registered again, with another password
RegisterContractWitness ==
    /\ last.op = "register"
    /\ last.res = "duplicate"
    /\ last.username \in DOMAIN files
    /\ files[last.username].password # last.password
    /\ files[last.username].balance > 0
    /\ Len(files[last.username].activity) > 0

-----------------------------------------------------------------------------
(* C11 *)

\* the username has a record whose stored password is the supplied one
Authentic(username, password) ==
    /\ username \in DOMAIN files
    /\ files[username].password = password

\* after this step the session holds what the user's record holds
SessionLoaded(username) ==
    /\ current_username' = username
    /\ current_balance' = files[username].balance
    /\ holdings' = files[username].holdings
    /\ Len(activity') = Len(files[username].activity)
    /\ \A i \in 1..Len(activity') :
          /\ activity'[i].desc = files[username].activity[i].desc
          /\ activity'[i].color = files[username].activity[i].color

-----------------------------------------------------------------------------
(* C12 *)

\* this step changed the persisted balance or holdings of the account
LedgerChanged(u) ==
    \/ files'[u].balance # files[u].balance
    \/ files'[u].holdings # files[u].holdings

\* this step put exactly one new entry at the front of the account's stored log
OneEntryStored(u) ==
    LET old == files[u].activity
        new == files'[u].activity
    IN  /\ Len(new) = Min(Len(old) + 1, ActivityMax)
        /\ \A i \in 2..Len(new) : new[i] = old[i - 1]

\* C12: in every step, if the persisted balance or holdings of an existing
\* account change, the step is a deposit, a withdrawal or a trade and exactly
\* one new entry was put at the front of the account's activity log in it;
\* the Delete command of a holdings row included.
LedgerLogged ==
    [][ \A u \in DOMAIN files \cap DOMAIN files' :
          LedgerChanged(u) => /\ last'.op \in {"deposit", "withdraw", "trade"}
                              /\ OneEntryStored(u) ]_vars

\* the same with the Delete command left out: every other handler logs
LedgerLoggedButDelete ==
    [][ \A u \in DOMAIN files \cap DOMAIN files' :
          (LedgerChanged(u) /\ last'.op # "delete")
              => /\ last'.op \in {"deposit", "withdraw", "trade"}
                 /\ OneEntryStored(u) ]_vars

-----------------------------------------------------------------------------
(* Vocabulary of the Buy/Sell table *)

\* the quotes of a view
Quotes(view) == {view[i] : i \in 1..Len(view)}

\* how many rows of the view show the quote
Count(view, c) == Cardinality({i \in 1..Len(view) : view[i] = c})

\* the quote is a row of the view before the row of the other quote
Before(view, c, d) ==
    \E k, l \in 1..Len(view) : k < l /\ view[k] = c /\ view[l] = d

\* two characters are the same letter, whatever their case
SameLetter(a, b) ==
    \/ a = b
    \/ \E k \in 1..Len(UpperCase) : {a, b} = {UpperCase[k], LowerCase[k]}

\* the text has the query as a substring, case ignored
HasSubstring(text, q) ==
    \E i \in 0..(Len(text) - Len(q)) :
        \A k \in 1..Len(q) : SameLetter(text[i + k], q[k])

\* the quote's name or symbol has the query as a substring, case ignored
Matches(c, q) == HasSubstring(c.NAME, q) \/ HasSubstring(c.SYMBOL, q)

\* the view is a subsequence of the snapshot: its rows are rows of the
\* snapshot, none twice, in the snapshot's order
Subsequence(view, snapshot) ==
    /\ \A c \in Quotes(view) : Count(view, c) = Count(snapshot, c)
    /\ \A k, l \in 1..Len(view) :
          k < l => Before(snapshot, view[k], view[l])

\* this step ran run_search, run_sort
SearchStep == last'.op = "search"
SortStep == last'.op = "sort"

-----------------------------------------------------------------------------
(* C13 *)

\* after this step, quotes of equal key are in the order they had before it
EqualKeysKeepOrder ==
    \A i, j \in 1..Len(displayed_coins) :
        (i < j /\ displayed_coins[i][last'.attr] = displayed_coins[j][last'.attr])
            => Before(displayed_coins', displayed_coins[i], displayed_coins[j])

\* C13: for every displayed view, every sort field and both directions, two
\* quotes of equal sort key appear in the sorted view in the relative order
\* they had in the view that was sorted.
SortStable == [][ SortStep => EqualKeysKeepOrder ]_vars

\* the same for the ascending direction alone
SortStableAscending ==
    [][ (SortStep /\ last'.ascending) => EqualKeysKeepOrder ]_vars

\* in the descending direction quotes of equal key come out in the opposite
\* of the order they had
SortDescendingTurnsEqualKeys ==
    [][ (SortStep /\ ~last'.ascending) =>
          \A i, j \in 1..Len(displayed_coins) :
              (i < j /\ displayed_coins[i][last'.attr] = displayed_coins[j][last'.attr])
                  => Before(displayed_coins', displayed_coins[j], displayed_coins[i])
      ]_vars

-----------------------------------------------------------------------------
(* C14 *)

-----------------------------------------------------------------------------
(* C15 *)

\* C15: the view after a search depends on the snapshot and the query alone,
\* not on the view displayed before: it is the view the same search gives on
\* the freshly loaded table, and its rows are in the snapshot's order whatever
\* sort or search came before.
SearchReplaces ==
    [][ SearchStep =>
          /\ displayed_coins' = search_view(cached_coins_data, lower(last'.query))
          /\ \A k, l \in 1..Len(displayed_coins') :
                k < l => Before(cached_coins_data, displayed_coins'[k],
                                displayed_coins'[l]) ]_vars

\* a search ran on a view that an earlier search had narrowed and a sort had
\* put out of the snapshot's order, and found a quote that view did not show
SearchReplacesWitness ==
    /\ last.op = "search"
    /\ Len(last.view) >= 2
    /\ Len(last.view) < Len(cached_coins_data)
    /\ \E k, l \in 1..Len(last.view) :
          k < l /\ Before(cached_coins_data, last.view[l], last.view[k])
    /\ \E c \in Quotes(displayed_coins) : c \notin Quotes(last.view)
    /\ Len(displayed_coins) >= 2

-----------------------------------------------------------------------------
(* C16 *)

\* the keys of the view do not decrease, or do not increase
Ordered(view, attr, ascending) ==
    \A i \in 1..(Len(view) - 1) :
        IF ascending THEN view[i][attr] <= view[i + 1][attr]
                     ELSE view[i][attr] >= view[i + 1][attr]

\* C16: the result of a sort is a permutation of the view displayed when it
\* ran (the same quotes, each as often), with keys non-decreasing when
\* ascending and non-increasing when descending.
SortContract ==
    [][ SortStep =>
          /\ Len(displayed_coins') = Len(displayed_coins)
          /\ \A c \in Quotes(displayed_coins) \cup Quotes(displayed_coins') :
                Count(displayed_coins', c) = Count(displayed_coins, c)
          /\ Ordered(displayed_coins', last'.attr, last'.ascending) ]_vars

\* a descending sort reordered a view that a search had narrowed to three
\* quotes or more, two of them with the same key
SortContractWitness ==
    /\ last.op = "sort"
    /\ ~last.ascending
    /\ Len(displayed_coins) >= 3
    /\ Len(displayed_coins) < Len(cached_coins_data)
    /\ last.view # displayed_coins
    /\ \E i \in 1..(Len(displayed_coins) - 1) :
          displayed_coins[i][last.attr] = displayed_coins[i + 1][last.attr]

-----------------------------------------------------------------------------
(* C17 *)

\* C17: a search or a sort leaves the cached snapshot as it is, the same
\* quotes in the same order; only the displayed view changes.
SnapshotKept ==
    [][ (SearchStep \/ SortStep) => cached_coins_data' = cached_coins_data ]_vars

\* the snapshot is a response as it was fetched
SnapshotAsFetched == cached_coins_data \in fetch_top_list

\* a sort put all the rows of the table in another order than the snapshot's,
\* which is still the response as fetched
SnapshotKeptWitness ==
    /\ last.op = "sort"
    /\ Len(cached_coins_data) >= 3
    /\ Len(displayed_coins) = Len(cached_coins_data)
    /\ displayed_coins # cached_coins_data
    /\ SnapshotAsFetched

-----------------------------------------------------------------------------
(* Vocabulary of the Leaderboard tab *)

\* this step opened the Leaderboard tab
LeaderboardStep == last'.op = "leaderboard"

\* the price of the symbol in the snapshot, 0 for a symbol it does not list
Priced(snapshot, sym) ==
    LET listed == {c \in Quotes(snapshot) : c.SYMBOL = sym}
    IN  IF listed = {} THEN 0 ELSE (CHOOSE c \in listed : TRUE).PRICE_USD

RECURSIVE Valued(_, _, _)

\* the sum over the symbols of amount times price
Valued(hold, syms, snapshot) ==
    IF syms = {} THEN money(0, 0)
    ELSE LET sym == CHOOSE x \in syms : TRUE
         IN  plus(times(Priced(snapshot, sym), hold[sym]),
                  Valued(hold, syms \ {sym}, snapshot))

\* an account holds a symbol, in a quantity that is not 0, that the snapshot
\* does not list
HoldsUnlisted ==
    \E u \in DOMAIN files : \E sym \in DOMAIN files[u].holdings :
        /\ files[u].holdings[sym] # 0
        /\ \A c \in Quotes(cached_coins_data) : c.SYMBOL # sym

-----------------------------------------------------------------------------
(* C18 *)

\* C18: the net worth ranked for an account is its balance plus the sum over
\* its held symbols of amount times price, the price being that of the
\* snapshot's quote of the symbol and 0 for a symbol the snapshot does not
\* list; a balance of 100.00 with 2 BTC at 50000.00 gives 100100.00.
NetWorthContract ==
    [][ LeaderboardStep =>
          \A i \in 1..Len(last'.ranking) :
              LET data == files[last'.ranking[i].username]
                  nw == last'.ranking[i].nw
              IN  /\ nw = plus(money(data.balance, 0),
                               Valued(data.holdings, DOMAIN data.holdings,
                                      cached_coins_data))
                  /\ ( /\ data.balance = 10000
                       /\ data.holdings = Put(EmptyDict, SymBTC, 2000000)
                       /\ Priced(cached_coins_data, SymBTC) = 5000000 )
                         => nw = money(10010000, 0) ]_vars

\* the account of the example, balance 100.00 and 2 BTC at 50000.00, is ranked
\* with 100100.00
NetWorthContractWitness ==
    /\ last.op = "leaderboard"
    /\ \E i \in 1..Len(last.ranking) :
          /\ last.ranking[i].nw = money(10010000, 0)
          /\ files[last.ranking[i].username].balance = 10000
          /\ files[last.ranking[i].username].holdings = Put(EmptyDict, SymBTC, 2000000)
    /\ Priced(cached_coins_data, SymBTC) = 5000000

\* an account whose holdings the snapshot does not list is ranked with its
\* balance alone
NetWorthUnlisted ==
    /\ last.op = "leaderboard"
    /\ HoldsUnlisted
    /\ \E i \in 1..Len(last.ranking) :
          LET data == files[last.ranking[i].username]
          IN  /\ DOMAIN data.holdings # {}
              /\ data.balance > 0
              /\ last.ranking[i].nw = money(data.balance, 0)

-----------------------------------------------------------------------------
(* C19 *)

\* C19: the ranking lists every stored account exactly once, in descending
\* order of net worth: of two adjacent entries the first has at least the net
\* worth of the second.
RankingContract ==
    [][ LeaderboardStep =>
          LET ranking == last'.ranking
          IN  /\ \A u \in DOMAIN files :
                    Cardinality({i \in 1..Len(ranking) : ranking[i].username = u}) = 1
              /\ \A i \in 1..Len(ranking) : ranking[i].username \in DOMAIN files
              /\ \A i \in 1..(Len(ranking) - 1) :
                    at_least(ranking[i].nw, ranking[i + 1].nw) ]_vars

\* the accounts of the example: a with 300.00 and b with 300.50 are ranked b, a
RankingContractWitness ==
    /\ last.op = "leaderboard"
    /\ last.ranking = << [username |-> <<"b">>, nw |-> money(30050, 0)],
                         [username |-> <<"a">>, nw |-> money(30000, 0)] >>

-----------------------------------------------------------------------------
(* C20 *)

\* C20: computing the ranking changes no record of any account, nothing of the
\* session (user, balance, holdings, activity) and not the snapshot, also when
\* an account holds symbols that the snapshot does not list.
LeaderboardReadOnly ==
    [][ LeaderboardStep =>
          UNCHANGED <<files, current_username, current_password, current_balance,
                      holdings, activity, cached_coins_data, displayed_coins>> ]_vars

\* the ranking was computed for two accounts, one of them holding a symbol
\* that the snapshot does not list, from a session with holdings
LeaderboardReadOnlyWitness ==
    /\ last.op = "leaderboard"
    /\ Len(last.ranking) = 2
    /\ HoldsUnlisted
    /\ DOMAIN holdings # {}

-----------------------------------------------------------------------------
(* C21 *)

\* this step began and ended on the dashboard: it is a step of one session
SessionStep == screen = "dashboard" /\ screen' = "dashboard"

\* C21: between login and logout no deposit, withdrawal, trade, search, sort
\* or tab switch replaces the cached snapshot: every step of a session
\* leaves it as the login captured it.
SnapshotOnce ==
    [][ SessionStep => cached_coins_data' = cached_coins_data ]_vars

\* the steps of a session other than a completed trade and the Back button
\* of a coin's detail view leave the snapshot as it is
SnapshotOnceButRefresh ==
    [][ (SessionStep /\ ~(last'.op = "trade" /\ last'.res = "ok")
                     /\ last'.op # "back")
            => cached_coins_data' = cached_coins_data ]_vars

-----------------------------------------------------------------------------
(* C22 *)

\* this step ran execute_trade with a pay amount or a quantity that is zero
\* or negative
NonPositiveTrade ==
    /\ last'.op = "trade"
    /\ (last'.pay_amt <= 0 \/ last'.qty <= 0)

\* C22: a trade whose pay amount or coin quantity is zero or negative is
\* rejected before any mutation: balance, holdings and activity stay as they
\* are.
TradeRejectsNonPositive ==
    [][ NonPositiveTrade => last'.res # "ok" /\ NothingChanged ]_vars

\* a Buy with a zero or negative pair is never refused: its pay amount does
\* not exceed a balance that is not negative
BuyAcceptsNonPositive ==
    [][ (NonPositiveTrade /\ last'.action = "Buy" /\ current_balance >= 0)
            => last'.res = "ok" ]_vars

-----------------------------------------------------------------------------
(* C23 *)

\* the value a quote is to be ordered by: its number, and 0 when the field is
\* missing, null or not a number
KeyOrZero(c, attr) == IF attr \in DOMAIN c THEN c[attr] ELSE 0

\* the sort of this step completed, and its result is the view it ran on with
\* its quotes ordered by KeyOrZero
SortedByKeyOrZero ==
    /\ last'.res = "ok"
    /\ Len(displayed_coins') = Len(displayed_coins)
    /\ \A c \in Quotes(displayed_coins) \cup Quotes(displayed_coins') :
          Count(displayed_coins', c) = Count(displayed_coins, c)
    /\ \A i \in 1..(Len(displayed_coins') - 1) :
          LET a == KeyOrZero(displayed_coins'[i], last'.attr)
              b == KeyOrZero(displayed_coins'[i + 1], last'.attr)
          IN  IF last'.ascending THEN a <= b ELSE a >= b

\* a quote of the view has, in the sort field, a text that is not a number
TextInView ==
    \E c \in Quotes(displayed_coins) : last'.attr \in text_fields(c)

\* C23: in run_sort a quote whose sort field is missing, null or not
\* parseable as a number is ordered as if its value were 0, and the sort
\* completes with a result for every such view.
SortTreatsBadAsZero == [][ SortStep => SortedByKeyOrZero ]_vars

\* the same for views whose quotes have a number, null or nothing in the sort
\* field
SortTreatsMissingAsZero ==
    [][ (SortStep /\ ~TextInView) => SortedByKeyOrZero ]_vars

\* the sort of a view of two quotes or more, one with a text that is not a
\* number in the sort field, fails and leaves the view as it was
SortOfTextFails ==
    [][ (SortStep /\ TextInView /\ Len(displayed_coins) > 1)
            => /\ last'.res = "value_error"
               /\ displayed_coins' = displayed_coins ]_vars

\* a descending sort put a quote with a null field between quotes of a
\* negative and a positive value
SortTreatsMissingAsZeroWitness ==
    /\ last.op = "sort"
    /\ last.res = "ok"
    /\ \E i \in 2..(Len(displayed_coins) - 1) :
          /\ last.attr \in null_fields(displayed_coins[i])
          /\ KeyOrZero(displayed_coins[i - 1], last.attr) > 0
          /\ KeyOrZero(displayed_coins[i + 1], last.attr) < 0

-----------------------------------------------------------------------------
(* C24 *)

\* after a confirmed reset no record exists
ResetEmpties ==
    (last'.op = "reset" /\ last'.res = "ok") => files' = EmptyDict

\* a record that this step brought into existence was registered by it
CreatedByRegister ==
    \A u \in DOMAIN files' \ DOMAIN files :
        last'.op = "register" /\ last'.res = "ok" /\ last'.username = u

\* C24: after a confirmed reset no account record exists, and a record comes
\* to exist only by a registration of its username: no deposit, withdrawal,
\* trade or holding deletion of a session that was logged in before the reset
\* brings a record back.
ResetDiscards == [][ ResetEmpties /\ CreatedByRegister ]_vars

\* the first half alone: a confirmed reset leaves no record
ResetLeavesNoRecord == [][ ResetEmpties ]_vars

-----------------------------------------------------------------------------
(* C25 *)

\* whether a trade of the side, symbol, pay amount and quantity is accepted
\* in the account's state before this step; no price takes part
Accepted(action, sym, pay_amt, qty) ==
    IF action = "Buy" THEN pay_amt <= current_balance
    ELSE sym \in DOMAIN holdings /\ qty <= holdings[sym]

\* the balance and the holdings such a trade leaves
BalanceAfter(action, pay_amt) ==
    IF action = "Buy" THEN current_balance - pay_amt ELSE current_balance + pay_amt

HoldingsAfter(action, sym, qty) ==
    Put(holdings, sym, IF action = "Buy" THEN Held(sym) + qty ELSE Held(sym) - qty)

\* C25: the outcome of execute_trade (accepted or not, the resulting balance
\* and holdings) is determined by the account's state, the side, the symbol,
\* the pay amount and the quantity alone: it is the same for every price of
\* the quote, also when the pair does not agree with the price.
TradeTrustsPair ==
    [][ last'.op = "trade" =>
          IF Accepted(last'.action, last'.sym, last'.pay_amt, last'.qty)
          THEN /\ last'.res = "ok"
               /\ current_balance' = BalanceAfter(last'.action, last'.pay_amt)
               /\ holdings' = HoldingsAfter(last'.action, last'.sym, last'.qty)
          ELSE /\ last'.res # "ok"
               /\ UNCHANGED <<current_balance, holdings>> ]_vars

\* a trade of a positive pair that does not agree with the price of the quote
\* was accepted
TradeTrustsPairWitness ==
    /\ last.op = "trade"
    /\ last.res = "ok"
    /\ last.price > 0 /\ last.pay_amt > 0 /\ last.qty > 0
    /\ times(last.price, last.qty) # money(last.pay_amt, 0)
    /\ current_balance = 0

-----------------------------------------------------------------------------
(* C26 *)

\* the snapshot lists a quote of the symbol
Listed(sym) == \E c \in Quotes(cached_coins_data) : c.SYMBOL = sym

\* C26: a trade on a symbol that the current snapshot does not list is
\* rejected and changes nothing of balance, holdings or activity.
TradeNeedsQuote ==
    [][ (last'.op = "trade" /\ ~Listed(last'.sym))
            => last'.res # "ok" /\ NothingChanged ]_vars

\* a Buy on a symbol that the snapshot does not list is carried out like any
\* other whenever the balance covers the pay amount
UnlistedBuyCarriedOut ==
    [][ (last'.op = "trade" /\ ~Listed(last'.sym) /\ last'.action = "Buy"
            /\ last'.pay_amt <= current_balance)
            => last'.res = "ok" /\ last'.sym \in DOMAIN holdings' ]_vars

-----------------------------------------------------------------------------
(* C27 *)

\* the handler that ran last completed and was a register, a deposit, a
\* withdrawal, a trade or the deletion of a holding
Saved ==
    /\ last.op \in {"register", "deposit", "withdraw", "trade", "delete"}
    /\ last.res = "ok"

\* the handler that ran last was a login that succeeded
LoggedIn == last.op = "login" /\ last.res = "ok"

\* C27: after every completed register, deposit, withdrawal, trade or holding
\* deletion the record of the current user holds exactly the session's
\* balance, holdings and activity descriptions and kinds, in the same order;
\* and after a login the session holds exactly what the record holds, so that
\* logging out and in again restores the same balance, holdings and activity.
PersistenceConsistent == (Saved \/ LoggedIn) => Persisted

\* a session was restored by a login with a balance, a holding and two
\* different activity entries, the newer one first as it was recorded
PersistenceConsistentWitness ==
    /\ LoggedIn
    /\ current_balance > 0
    /\ DOMAIN holdings # {}
    /\ Len(activity) = 2
    /\ activity[1].desc # activity[2].desc
    /\ LET r == recorded[current_username]
       IN  /\ activity[1].desc = r[Len(r)].desc
           /\ activity[2].desc = r[Len(r) - 1].desc

-----------------------------------------------------------------------------
(* C28 *)

\* the username this step acted for: the one registered, or the one of the
\* session
ActingUser == IF last'.op = "register" THEN last'.username ELSE current_username

\* C28: a deposit, a withdrawal, a trade or a registration performed for one
\* username never changes the persisted balance, holdings, activity or
\* password of any other username.
AccountIsolation ==
    [][ last'.op \in {"register", "deposit", "withdraw", "trade"} =>
          \A u \in DOMAIN files \ {ActingUser} :
              /\ u \in DOMAIN files'
              /\ files'[u] = files[u] ]_vars

\* a trade of one user was saved while another user had a record with a
\* balance and activity of its own
AccountIsolationWitness ==
    /\ last.op = "trade"
    /\ last.res = "ok"
    /\ \E u \in DOMAIN files \ {current_username} :
          /\ files[u].balance > 0
          /\ files[u].balance # current_balance
          /\ files[u].holdings = EmptyDict
          /\ Len(files[u].activity) > 0

====
